---- MODULE Spec2Model ----
(***************************************************************************)
(* Batch collection pipeline with resumable progress tracking:            *)
(* StockDataCollector.collect_all_data of                                  *)
(* src/research/data_collection/stock_data_collector.py, together with    *)
(* the progress file, the summary file and the process life cycle of the  *)
(* entry points (construction, run, KeyboardInterrupt, restart).          *)
(*                                                                         *)
(* Tickers are the integers 1..MaxLen.  The bulk fetch and the            *)
(* per-ticker persistence are collaborators: their outcomes are inputs.   *)
(*                                                                         *)
(* Spec is the collection started by stock_data_collector.py (the entry   *)
(* point that offers --no-resume), SpecEven its ten-ticker scenario,      *)
(* SpecEntry the three entry points with their exit status, SpecExtend a  *)
(* ticker list that grows between processes, SpecReuse a collector whose  *)
(* collect_all_data is called again after it returned, SpecLive the       *)
(* always-resuming entry points under fairness of the run's steps, and    *)
(* SpecDiscovery is get_all_tickers over the outcomes of its listing      *)
(* sources.                                                                *)
(***************************************************************************)
EXTENDS Integers, Sequences, FiniteSets, TLC

\* ------------------------------------------------------------------ bounds
MaxLen == 3
MaxBatchSize == 2
MaxRuns == 2
MaxDupLen == 2

\* ---------------------------------------------------------------- helpers
Range(s) == {s[i] : i \in 1..Len(s)}

NoDup(s) == \A i, j \in 1..Len(s) : i # j => s[i] # s[j]

Min(a, b) == IF a < b THEN a ELSE b

SeqsUpTo(S, n) == UNION {[1..k -> S] : k \in 0..n}

Sorted(s) == SortSeq(s, LAMBDA a, b : a < b)

\* the ticker lists: at most MaxLen tickers, duplicates allowed (--tickers takes
\* any words) in the lists of at most MaxDupLen tickers, the tickers numbered
\* in the order of their first occurrence
Tickers == 1..MaxLen
FirstOccurrenceOrder(s) ==
    \A i \in 1..Len(s) : \A t \in 1..(s[i] - 1) : \E j \in 1..(i - 1) : s[j] = t
TickerLists ==
    {s \in SeqsUpTo(Tickers, MaxLen) :
        FirstOccurrenceOrder(s) /\ (NoDup(s) \/ Len(s) <= MaxDupLen)}
BatchSizes == 1..MaxBatchSize

\* the scripts that run a collection
EntryPoints == {"run_full_collection", "collect_data", "stock_data_collector"}

\* the resume arguments an entry point can pass: only stock_data_collector
\* has --no-resume, the other two pass resume=True
resume_arguments(entry) ==
    IF entry = "stock_data_collector" THEN BOOLEAN ELSE {TRUE}

\* the exit status of the process, by how collect_all_data ended.
\* run_full_collection and collect_data catch KeyboardInterrupt (main
\* returns) and turn an Exception into sys.exit(1); stock_data_collector
\* has no handler: the interpreter ends with the traceback, status 1 for an
\* Exception and death by SIGINT (130 to the shell) for KeyboardInterrupt.
exit_status_of(entry, outcome) ==
    CASE outcome = "returned" -> 0
      [] outcome = "Exception" -> 1
      [] outcome = "KeyboardInterrupt" ->
            IF entry = "stock_data_collector" THEN 130 ELSE 0

NoFile == [exists |-> FALSE, valid |-> FALSE]

\* the listing sources get_all_tickers reads, per exchange listing, primary
\* first: NASDAQ from the GitHub dataset, then from the nasdaqtrader FTP
\* directory; NYSE and the other exchanges from the FTP directory only
Sources ==
    [NASDAQ |-> <<"nasdaq-listed.csv", "nasdaqlisted.txt">>,
     NYSE |-> <<"otherlisted.txt">>]

Exchanges == DOMAIN Sources

SourceNames == UNION {Range(Sources[x]) : x \in Exchanges}

\* symbols a listing can hold: two ordinary ones, one with a special
\* character, and the footer row of the FTP files
ListedSymbols == {"AAPL", "IBM", "BRK$A", "File Creation Time"}

Unreachable == [ok |-> FALSE, symbols |-> {}]

\* reading a source raises, or gives the symbols of its Symbol column
ListingOutcomes ==
    {Unreachable} \cup {[ok |-> TRUE, symbols |-> S] : S \in SUBSET ListedSymbols}

NoListings == [src \in SourceNames |-> Unreachable]

\* t != 'File Creation Time', applied to the FTP listings
without_footer(symbols) == symbols \ {"File Creation Time"}

\* not any(c in t for c in ['$', '^', '~'])
cleaned(symbols) == {t \in symbols : t \notin {"BRK$A"}}
\* a file opened for writing whose JSON text is not complete
Truncated == [exists |-> TRUE, valid |-> FALSE]

VARIABLES
    entry_point,         \* the script whose main() runs the collection
    exit_status,         \* <<>> while the process runs, else <<its exit status>>
    all_tickers,         \* the tickers argument the entry point hands to every call
    new_tickers,         \* the tickers appended to that list after a completed
                         \* collection
    progress_file,       \* metadata/collection_progress.json, or NoFile
    summary_file,        \* metadata/collection_summary.json, or NoFile
    successful_tickers,  \* self.successful_tickers
    failed_tickers,      \* self.failed_tickers
    batch_size,          \* self.batch_size
    resume,              \* the resume argument of the last collect_all_data call
    tickers,             \* local: the list after the resume filter
    total_batches,       \* local
    batch_idx,           \* local: loop variable
    batch_tickers,       \* local: slice of the current batch
    historical_data,     \* local: keys of the bulk-fetch result
    pos,                 \* position of the per-ticker loop in batch_tickers
    pc,                  \* control position of the process
    runs,                \* number of collect_all_data calls so far
    \* history of the current run, kept for the properties
    prior,               \* the progress record on disk when the run started
    fetched,             \* batches passed to the bulk fetch, in order
    written,             \* batch indices written to the progress file, in order
    base_successful,     \* Len(successful_tickers) when the loop started
    base_failed,         \* Len(failed_tickers) when the loop started
    chain,               \* every call so far had resume enabled and all earlier
                         \* ones were interrupted
    summary_writes,      \* times the run wrote the summary file
    sleeps,              \* inter-batch delays the run has completed
    \* log of the batch in progress
    batch_raised,        \* the bulk call of the batch raised
    errored,             \* positions of batch_tickers whose processing raised
    fundamentals_empty,  \* download_fundamentals returned {} for the ticker
                         \* the per-ticker loop processed last
    fundamentals_saved,  \* save_fundamentals wrote an artifact for that ticker
    \* ticker discovery (get_all_tickers)
    listings,            \* what reading each listing source gives
    tried,               \* the sources get_all_tickers has read, in order
    discovered,          \* the tickers get_all_tickers returned
    ticker_file,         \* metadata/all_tickers.json, or NoFile
    \* across and within runs, kept for the properties
    completed,           \* the process before this one returned from
                         \* collect_all_data
    artifacts            \* tickers whose historical-series file this run wrote

vars == <<entry_point, exit_status, all_tickers, new_tickers, progress_file, summary_file, successful_tickers, failed_tickers,
          batch_size, resume, tickers, total_batches, batch_idx,
          batch_tickers, historical_data, pos, pc, runs, prior, fetched,
          written, base_successful, base_failed, chain, summary_writes, sleeps,
          batch_raised, errored, fundamentals_empty, fundamentals_saved,
          listings, tried, discovered, ticker_file, completed, artifacts>>

files == <<progress_file, summary_file>>
fields == <<successful_tickers, failed_tickers, batch_size>>
locals == <<tickers, total_batches, batch_idx, batch_tickers, historical_data, pos>>
args == <<entry_point, all_tickers, new_tickers, resume>>
history == <<prior, fetched, written, base_successful, base_failed, chain>>
run_log == <<summary_writes, sleeps>>
batch_log == <<batch_raised, errored, fundamentals_empty, fundamentals_saved>>
discovery == <<listings, tried, discovered, ticker_file>>

\* ------------------------------------------------------- pure functions
\* mutation: the progress file is never read
load_progress_ignores_file(file) ==
    [exists |-> FALSE, valid |-> FALSE, successful_tickers |-> <<>>,
     failed_tickers |-> <<>>, last_batch_index |-> 0]

\* load_progress: the stored record, or the default one
load_progress(file) ==
    IF file.exists
    THEN file
    ELSE [exists |-> FALSE, valid |-> FALSE, successful_tickers |-> <<>>,
          failed_tickers |-> <<>>, last_batch_index |-> 0]

\* mutation: a resumed run starts at batch 0 of the remaining list
start_batch_zero(r, progress) == 0

\* start_batch = 0; if resume: start_batch = progress.get('last_batch_index', 0)
start_batch_of(r, progress) == IF r THEN progress.last_batch_index ELSE 0

\* mutation: only the successful tickers count as processed
processed_set_successful_only(succ, fail) == Range(succ)

\* set(self.successful_tickers + self.failed_tickers)
processed_set(succ, fail) == Range(succ) \cup Range(fail)

\* mutation: the resume filter keeps every ticker
filter_processed_keeps_all(ts, processed) == ts

\* [t for t in tickers if t not in processed]
filter_processed(ts, processed) == SelectSeq(ts, LAMBDA t : t \notin processed)

\* mutation: the batch count is one more than the full batches
total_batches_one_more(n, bs) == n \div bs + 1

\* mutation: the batch count rounds down
total_batches_rounded_down(n, bs) == n \div bs

\* (len(tickers) + batch_size - 1) // batch_size
total_batches_of(n, bs) == (n + bs - 1) \div bs

\* mutation: the slice starts one position early
batch_slice_off_by_one(ts, idx, bs) ==
    LET batch_start == idx * bs
        batch_end == Min(batch_start + bs, Len(ts))
    IN  SubSeq(ts, Min(batch_start + 1, Len(ts)) - (IF idx > 0 THEN 1 ELSE 0), batch_end)

\* tickers[batch_start:batch_end]
batch_slice(ts, idx, bs) ==
    LET batch_start == idx * bs
        batch_end == Min(batch_start + bs, Len(ts))
    IN  SubSeq(ts, batch_start + 1, batch_end)

\* mutation: a bulk call that raised still yields the series it had parsed
bulk_result_despite_raise(data, raised) == data

\* download_batch_historical: the parsed result, or {} when the call raised
bulk_result(data, raised) == IF raised THEN {} ELSE data

FundamentalsResults == {"ok", "empty", "none"}

\* mutation: a ticker without fundamentals is a failed ticker
ticker_outcome_needs_fundamentals(present, error, fund) ==
    IF present /\ ~error /\ fund = "ok" THEN "successful" ELSE "failed"

\* the list a ticker is appended to: successful when its series is in the
\* bulk result and nothing raised, whatever the fundamentals; else failed
ticker_outcome(present, error, fund) ==
    IF present /\ ~error THEN "successful" ELSE "failed"

\* mutation: an error ends the per-ticker loop of the batch
after_ticker_break_on_error(error, p, n) == IF error THEN n + 1 ELSE p + 1

\* the per-ticker loop goes on with the next ticker, error or not
after_ticker(error, p, n) == p + 1

\* mutation: the delay follows every batch, the last one too
delay_after_every_batch(idx, total) == TRUE

\* if batch_idx < total_batches - 1: the delay is due after this batch
delay_due(idx, total) == idx < total - 1

\* the progress record save_progress writes
progress_record(succ, fail, idx) ==
    [exists |-> TRUE, valid |-> TRUE, successful_tickers |-> succ,
     failed_tickers |-> fail, last_batch_index |-> idx]

\* mutation: the total of the summary counts the successful tickers only
summary_record_total_successful(succ, fail) ==
    [exists |-> TRUE, valid |-> TRUE,
     total_tickers |-> Len(succ),
     successful |-> Len(succ),
     failed |-> Len(fail),
     successful_tickers |-> Sorted(succ),
     failed_tickers |-> Sorted(fail)]

\* the summary record collect_all_data writes
summary_record(succ, fail) ==
    [exists |-> TRUE, valid |-> TRUE,
     total_tickers |-> Len(succ) + Len(fail),
     successful |-> Len(succ),
     failed |-> Len(fail),
     successful_tickers |-> Sorted(succ),
     failed_tickers |-> Sorted(fail)]

\* ------------------------------------------------------------------ Init
\* a freshly constructed collector in an empty data directory
Constructed ==
    /\ completed = FALSE
    /\ artifacts = {}
    /\ tried = <<>>
    /\ discovered = {}
    /\ ticker_file = NoFile
    /\ exit_status = <<>>
    /\ new_tickers = <<>>
    /\ progress_file = NoFile
    /\ summary_file = NoFile
    /\ successful_tickers = <<>>
    /\ failed_tickers = <<>>
    /\ resume = TRUE
    /\ tickers = <<>>
    /\ total_batches = 0
    /\ batch_idx = 0
    /\ batch_tickers = <<>>
    /\ historical_data = {}
    /\ pos = 1
    /\ pc = "idle"
    /\ runs = 0
    /\ prior = NoFile
    /\ fetched = <<>>
    /\ written = <<>>
    /\ base_successful = 0
    /\ base_failed = 0
    /\ chain = TRUE
    /\ summary_writes = 0
    /\ sleeps = 0
    /\ batch_raised = FALSE
    /\ errored = {}
    /\ fundamentals_empty = FALSE
    /\ fundamentals_saved = FALSE

Init ==
    /\ listings = NoListings
    /\ entry_point = "stock_data_collector"
    /\ all_tickers \in TickerLists
    /\ batch_size \in BatchSizes
    /\ Constructed

\* --------------------------------------------------------------- actions
\* a new process: the entry point constructs a collector (__init__) with the
\* same batch size and will hand it the same ticker list
NewProcess ==
    /\ completed' = (pc = "done")
    /\ artifacts' = {}
    /\ UNCHANGED discovery
    /\ pc \in {"done", "interrupted", "failed"}
    /\ runs < MaxRuns
    /\ successful_tickers' = <<>>
    /\ failed_tickers' = <<>>
    /\ tickers' = <<>>
    /\ total_batches' = 0
    /\ batch_idx' = 0
    /\ batch_tickers' = <<>>
    /\ historical_data' = {}
    /\ pos' = 1
    /\ pc' = "idle"
    /\ exit_status' = <<>>
    /\ chain' = (chain /\ pc = "interrupted")
    /\ prior' = NoFile
    /\ fetched' = <<>>
    /\ written' = <<>>
    /\ base_successful' = 0
    /\ base_failed' = 0
    /\ summary_writes' = 0
    /\ sleeps' = 0
    /\ batch_raised' = FALSE
    /\ errored' = {}
    /\ fundamentals_empty' = FALSE
    /\ fundamentals_saved' = FALSE
    /\ UNCHANGED <<files, batch_size, args, runs>>

\* get_all_tickers: read the NASDAQ listing, from the FTP file when the
\* GitHub file fails; read the other-exchanges listing; each failure is
\* logged and contributes nothing. Then remove duplicates, clean, write the
\* ticker file and return the sorted list (a duplicate-free sorted list is
\* kept as the set of its elements).
GetAllTickers ==
    /\ UNCHANGED completed
    /\ UNCHANGED artifacts
    /\ pc = "idle"
    /\ tried = <<>>
    /\ LET github == listings["nasdaq-listed.csv"]
           nasdaq_ftp == listings["nasdaqlisted.txt"]
           other_ftp == listings["otherlisted.txt"]
           nasdaq_tickers ==
               IF github.ok THEN github.symbols
               ELSE IF nasdaq_ftp.ok THEN without_footer(nasdaq_ftp.symbols)
               ELSE {}
           nyse_tickers ==
               IF other_ftp.ok THEN without_footer(other_ftp.symbols) ELSE {}
           result == cleaned(nasdaq_tickers \cup nyse_tickers)
       IN  /\ tried' = <<"nasdaq-listed.csv">>
                         \o (IF github.ok THEN <<>> ELSE <<"nasdaqlisted.txt">>)
                         \o <<"otherlisted.txt">>
           /\ discovered' = result
           /\ ticker_file' = [exists |-> TRUE, valid |-> TRUE, tickers |-> result]
    /\ pc' = "listed"
    /\ UNCHANGED <<entry_point, exit_status, all_tickers, new_tickers, listings,
                   files, fields, resume, locals, runs, history, run_log,
                   batch_log>>

\* collect_all_data up to the batch loop: load the progress, filter, count
CollectAllData(ts, r) ==
    /\ UNCHANGED completed
    /\ artifacts' = {}
    /\ UNCHANGED discovery
    /\ pc = "idle"
    /\ runs < MaxRuns
    /\ r \in resume_arguments(entry_point)
    /\ r => (progress_file.exists => progress_file.valid)
    /\ LET progress == load_progress(progress_file)
           succ == IF r THEN progress.successful_tickers ELSE successful_tickers
           fail == IF r THEN progress.failed_tickers ELSE failed_tickers
           start_batch == start_batch_of(r, progress)
           processed == processed_set(succ, fail)
           remaining == IF r THEN filter_processed(ts, processed) ELSE ts
       IN  /\ successful_tickers' = succ
           /\ failed_tickers' = fail
           /\ tickers' = remaining
           /\ total_batches' = total_batches_of(Len(remaining), batch_size)
           /\ batch_idx' = start_batch
           /\ prior' = progress_file
           /\ base_successful' = Len(succ)
           /\ base_failed' = Len(fail)
    /\ resume' = r
    /\ batch_tickers' = <<>>
    /\ historical_data' = {}
    /\ pos' = 1
    /\ pc' = "loop"
    /\ runs' = runs + 1
    /\ fetched' = <<>>
    /\ written' = <<>>
    /\ chain' = (chain /\ r)
    /\ UNCHANGED exit_status
    /\ summary_writes' = 0
    /\ sleeps' = 0
    /\ batch_raised' = FALSE
    /\ errored' = {}
    /\ fundamentals_empty' = FALSE
    /\ fundamentals_saved' = FALSE
    /\ UNCHANGED <<entry_point, all_tickers, new_tickers, files, batch_size>>

\* collect_all_data with resume over a progress file that is not complete
\* JSON: json.load raises, the exception leaves collect_all_data and the
\* process exits
CollectAllDataFails ==
    /\ UNCHANGED completed
    /\ artifacts' = {}
    /\ UNCHANGED discovery
    /\ pc = "idle"
    /\ runs < MaxRuns
    /\ progress_file.exists /\ ~progress_file.valid
    /\ resume' = TRUE
    /\ pc' = "failed"
    /\ exit_status' = <<exit_status_of(entry_point, "Exception")>>
    /\ runs' = runs + 1
    /\ chain' = FALSE
    /\ successful_tickers' = <<>>
    /\ failed_tickers' = <<>>
    /\ tickers' = <<>>
    /\ total_batches' = 0
    /\ batch_idx' = 0
    /\ batch_tickers' = <<>>
    /\ historical_data' = {}
    /\ pos' = 1
    /\ prior' = NoFile
    /\ fetched' = <<>>
    /\ written' = <<>>
    /\ base_successful' = 0
    /\ base_failed' = 0
    /\ summary_writes' = 0
    /\ sleeps' = 0
    /\ batch_raised' = FALSE
    /\ errored' = {}
    /\ fundamentals_empty' = FALSE
    /\ fundamentals_saved' = FALSE
    /\ UNCHANGED <<entry_point, all_tickers, new_tickers, files, batch_size>>

\* loop head and download_batch_historical: the bulk fetch of one batch.
\* data is the set of tickers yf.download holds a non-empty series for (or
\* would have held, had it not raised); raised: the call raised.
DownloadBatch(data, raised) ==
    /\ UNCHANGED completed
    /\ UNCHANGED artifacts
    /\ UNCHANGED discovery
    /\ UNCHANGED exit_status
    /\ pc = "loop"
    /\ batch_idx < total_batches
    /\ LET batch == batch_slice(tickers, batch_idx, batch_size)
       IN  /\ data \subseteq Range(batch)
           /\ batch_tickers' = batch
           /\ historical_data' = bulk_result(data, raised)
           /\ fetched' = Append(fetched, batch)
    /\ pos' = 1
    /\ pc' = "ticker"
    /\ batch_raised' = raised
    /\ errored' = {}
    /\ fundamentals_empty' = FALSE
    /\ fundamentals_saved' = FALSE
    /\ UNCHANGED <<files, fields, args, tickers, total_batches, batch_idx, runs,
                   prior, written, base_successful, base_failed, chain, run_log>>

\* one iteration of the per-ticker loop.
\* error: save_historical_data or save_fundamentals raised an Exception;
\* fund: what download_fundamentals returned, "ok" (the metrics), "empty"
\* ({}, also when the fetch failed inside it) or "none" (it was not called).
\* A ticker without a series calls neither; with a series, "none" means
\* save_historical_data raised, "empty" skips save_fundamentals, and with
\* "ok" an error is save_fundamentals raising.
ProcessTicker(error, fund) ==
    /\ UNCHANGED completed
    /\ UNCHANGED discovery
    /\ UNCHANGED exit_status
    /\ pc = "ticker"
    /\ pos <= Len(batch_tickers)
    /\ LET ticker == batch_tickers[pos]
           present == ticker \in historical_data
       IN  /\ present => (fund = "none" => error) /\ (fund = "empty" => ~error)
           /\ ~present => fund = "none" /\ ~error
           /\ IF ticker_outcome(present, error, fund) = "successful"
              THEN /\ successful_tickers' = Append(successful_tickers, ticker)
                   /\ UNCHANGED failed_tickers
              ELSE /\ failed_tickers' = Append(failed_tickers, ticker)
                   /\ UNCHANGED successful_tickers
           /\ fundamentals_saved' = (present /\ ~error /\ fund = "ok")
           /\ artifacts' = IF present /\ fund # "none"
                           THEN artifacts \cup {ticker}
                           ELSE artifacts
    /\ errored' = IF error THEN errored \cup {pos} ELSE errored
    /\ fundamentals_empty' = (fund = "empty")
    /\ pos' = after_ticker(error, pos, Len(batch_tickers))
    /\ UNCHANGED <<files, batch_size, args, tickers, total_batches, batch_idx,
                   batch_tickers, historical_data, pc, runs, prior, fetched,
                   written, base_successful, base_failed, chain, run_log,
                   batch_raised>>

\* mutation: the progress file is opened before the per-ticker loop has finished
OpenProgressFileEarly ==
    /\ UNCHANGED completed
    /\ UNCHANGED artifacts
    /\ UNCHANGED discovery
    /\ UNCHANGED exit_status
    /\ pc = "ticker"
    /\ progress_file' = Truncated
    /\ pc' = "saving"
    /\ fundamentals_empty' = FALSE
    /\ fundamentals_saved' = FALSE
    /\ UNCHANGED <<summary_file, fields, args, locals, runs, history, run_log,
                   batch_raised, errored>>

\* end of the batch, save_progress: open(self.progress_file, 'w') truncates
\* the file
OpenProgressFile ==
    /\ UNCHANGED completed
    /\ UNCHANGED artifacts
    /\ UNCHANGED discovery
    /\ UNCHANGED exit_status
    /\ pc = "ticker"
    /\ pos > Len(batch_tickers)
    /\ progress_file' = Truncated
    /\ pc' = "saving"
    /\ fundamentals_empty' = FALSE
    /\ fundamentals_saved' = FALSE
    /\ UNCHANGED <<summary_file, fields, args, locals, runs, history, run_log,
                   batch_raised, errored>>

\* save_progress: json.dump has written the whole record and the file is
\* closed; then the delay decision.  The locals of the finished iteration
\* are dead (the next iteration assigns them before it reads them).
SaveProgress ==
    /\ UNCHANGED completed
    /\ UNCHANGED artifacts
    /\ UNCHANGED discovery
    /\ UNCHANGED exit_status
    /\ pc = "saving"
    /\ progress_file' = progress_record(successful_tickers, failed_tickers,
                                        batch_idx + 1)
    /\ written' = Append(written, progress_file'.last_batch_index)
    /\ IF delay_due(batch_idx, total_batches)
       THEN pc' = "sleep" /\ UNCHANGED batch_idx
       ELSE pc' = "loop" /\ batch_idx' = batch_idx + 1
    /\ batch_tickers' = <<>>
    /\ historical_data' = {}
    /\ pos' = 1
    /\ batch_raised' = FALSE
    /\ errored' = {}
    /\ fundamentals_empty' = FALSE
    /\ fundamentals_saved' = FALSE
    /\ UNCHANGED <<summary_file, fields, args, tickers, total_batches, runs,
                   prior, fetched, base_successful, base_failed, chain, run_log>>

\* time.sleep(delay_between_batches) returns; next iteration
Sleep ==
    /\ UNCHANGED completed
    /\ UNCHANGED artifacts
    /\ UNCHANGED discovery
    /\ UNCHANGED exit_status
    /\ pc = "sleep"
    /\ batch_idx' = batch_idx + 1
    /\ pc' = "loop"
    /\ sleeps' = sleeps + 1
    /\ UNCHANGED <<files, fields, args, tickers, total_batches, batch_tickers,
                   historical_data, pos, runs, history, summary_writes,
                   batch_log>>

\* the loop is exhausted: write the summary file
WriteSummary ==
    /\ UNCHANGED completed
    /\ UNCHANGED artifacts
    /\ UNCHANGED discovery
    /\ pc = "loop"
    /\ batch_idx >= total_batches
    /\ summary_file' = summary_record(successful_tickers, failed_tickers)
    /\ pc' = "done"
    /\ exit_status' = <<exit_status_of(entry_point, "returned")>>
    /\ summary_writes' = summary_writes + 1
    /\ UNCHANGED <<progress_file, fields, args, locals, runs, history, sleeps,
                   batch_log>>

\* KeyboardInterrupt while collect_all_data runs: it leaves collect_all_data,
\* the entry point catches it or not, and the process ends: the files stay as
\* they are, the memory of the process is gone
KeyboardInterrupt ==
    /\ UNCHANGED completed
    /\ artifacts' = {}
    /\ UNCHANGED discovery
    /\ pc \in {"loop", "ticker", "saving", "sleep"}
    /\ pc' = "interrupted"
    /\ exit_status' = <<exit_status_of(entry_point, "KeyboardInterrupt")>>
    /\ successful_tickers' = <<>>
    /\ failed_tickers' = <<>>
    /\ tickers' = <<>>
    /\ total_batches' = 0
    /\ batch_idx' = 0
    /\ batch_tickers' = <<>>
    /\ historical_data' = {}
    /\ pos' = 1
    /\ prior' = NoFile
    /\ fetched' = <<>>
    /\ written' = <<>>
    /\ base_successful' = 0
    /\ base_failed' = 0
    /\ sleeps' = 0
    /\ batch_raised' = FALSE
    /\ errored' = {}
    /\ fundamentals_empty' = FALSE
    /\ fundamentals_saved' = FALSE
    /\ UNCHANGED <<files, batch_size, args, runs, chain, summary_writes>>

Next ==
    \/ NewProcess
    \/ \E r \in BOOLEAN : CollectAllData(all_tickers, r)
    \/ CollectAllDataFails
    \/ \E data \in SUBSET Tickers, raised \in BOOLEAN : DownloadBatch(data, raised)
    \/ \E error \in BOOLEAN, fund \in FundamentalsResults : ProcessTicker(error, fund)
    \/ OpenProgressFile
    \/ SaveProgress
    \/ Sleep
    \/ WriteSummary
    \/ KeyboardInterrupt

Spec == Init /\ [][Next]_vars

\* ------------------------------------------------- collaborators return
\* the steps of a run that is under way.  collect_all_data is sequential
\* code: when the bulk fetch, the per-ticker calls, the file writes and the
\* sleep return, the next statement runs, so each step that stays enabled is
\* eventually taken.  KeyboardInterrupt stays possible and is never forced.
RunStep ==
    \/ \E data \in SUBSET Tickers, raised \in BOOLEAN : DownloadBatch(data, raised)
    \/ \E error \in BOOLEAN, fund \in FundamentalsResults : ProcessTicker(error, fund)
    \/ OpenProgressFile
    \/ SaveProgress
    \/ Sleep
    \/ WriteSummary

\* collect_data and run_full_collection always resume
InitLive ==
    /\ listings = NoListings
    /\ entry_point = "collect_data"
    /\ all_tickers \in TickerLists
    /\ batch_size \in BatchSizes
    /\ Constructed

SpecLive == InitLive /\ [][Next]_vars /\ WF_vars(RunStep)

\* ------------------------------------------------ the end-to-end scenario
\* ten distinct tickers (the --test list has ten), batch size 4, and a bulk
\* fetch that returns data exactly for the tickers at even positions of the
\* list (positions counted from 0, as Python does); nothing raises
InitEven ==
    /\ listings = NoListings
    /\ entry_point = "stock_data_collector"
    /\ all_tickers = [i \in 1..10 |-> i]
    /\ batch_size = 4
    /\ Constructed

PositionOf(t) == CHOOSE i \in 1..Len(all_tickers) : all_tickers[i] = t

AtEvenPosition(ts) == {t \in Range(ts) : (PositionOf(t) - 1) % 2 = 0}

DownloadBatchEven ==
    DownloadBatch(AtEvenPosition(batch_slice(tickers, batch_idx, batch_size)), FALSE)

NextEven ==
    \/ NewProcess
    \/ \E r \in BOOLEAN : CollectAllData(all_tickers, r)
    \/ CollectAllDataFails
    \/ DownloadBatchEven
    \/ \E fund \in FundamentalsResults : ProcessTicker(FALSE, fund)
    \/ OpenProgressFile
    \/ SaveProgress
    \/ Sleep
    \/ WriteSummary
    \/ KeyboardInterrupt

SpecEven == InitEven /\ [][NextEven]_vars

\* ------------------------------------------------------ the entry points
\* any of the three scripts over a duplicate-free list
InitEntry ==
    /\ listings = NoListings
    /\ entry_point \in EntryPoints
    /\ all_tickers \in {s \in TickerLists : NoDup(s)}
    /\ batch_size \in BatchSizes
    /\ Constructed

SpecEntry == InitEntry /\ [][Next]_vars

\* ---------------------------------------------------- an extended list
\* collect_data --tickers over a duplicate-free list; after a collection has
\* completed, the next process is started with the list extended by tickers
\* that are not in it
InitExtend ==
    /\ listings = NoListings
    /\ entry_point = "collect_data"
    /\ all_tickers \in {s \in TickerLists : NoDup(s)}
    /\ batch_size \in BatchSizes
    /\ Constructed

NewProcessExtended(new) ==
    /\ completed' = TRUE
    /\ artifacts' = {}
    /\ UNCHANGED discovery
    /\ pc = "done"
    /\ runs < MaxRuns
    /\ new # <<>>
    /\ NoDup(all_tickers \o new)
    /\ all_tickers' = all_tickers \o new
    /\ new_tickers' = new_tickers \o new
    /\ successful_tickers' = <<>>
    /\ failed_tickers' = <<>>
    /\ tickers' = <<>>
    /\ total_batches' = 0
    /\ batch_idx' = 0
    /\ batch_tickers' = <<>>
    /\ historical_data' = {}
    /\ pos' = 1
    /\ pc' = "idle"
    /\ exit_status' = <<>>
    /\ chain' = FALSE
    /\ prior' = NoFile
    /\ fetched' = <<>>
    /\ written' = <<>>
    /\ base_successful' = 0
    /\ base_failed' = 0
    /\ summary_writes' = 0
    /\ sleeps' = 0
    /\ batch_raised' = FALSE
    /\ errored' = {}
    /\ fundamentals_empty' = FALSE
    /\ fundamentals_saved' = FALSE
    /\ UNCHANGED <<entry_point, resume, files, batch_size, runs>>

\* the extensions of a list: the next unused tickers, up to MaxLen in all
Extensions(ts) ==
    {[i \in 1..k |-> Len(ts) + i] : k \in 1..(MaxLen - Len(ts))}

NextExtend ==
    \/ Next
    \/ \E new \in Extensions(all_tickers) : NewProcessExtended(new)

SpecExtend == InitExtend /\ [][NextExtend]_vars

\* ------------------------------------------------- a collector used twice
\* a program that, as stock_data_collector.main does, constructs a collector
\* and may disable resume, and that calls collect_all_data again on the same
\* object after a call has returned
InitReuse ==
    /\ listings = NoListings
    /\ entry_point = "stock_data_collector"
    /\ all_tickers \in {s \in TickerLists : NoDup(s)}
    /\ batch_size \in BatchSizes
    /\ Constructed

\* the lists the later calls are given: any duplicate-free list
ReuseLists == {s \in SeqsUpTo(Tickers, MaxLen) : NoDup(s)}

\* collect_all_data has returned and the caller keeps the collector for the
\* next call: the process goes on, self.successful_tickers and
\* self.failed_tickers stay as the call left them (only __init__ assigns
\* them []), the locals of the call are gone
KeepCollector(next) ==
    /\ pc = "done"
    /\ runs < MaxRuns
    /\ all_tickers' = next
    /\ pc' = "idle"
    /\ exit_status' = <<>>
    /\ tickers' = <<>>
    /\ total_batches' = 0
    /\ batch_idx' = 0
    /\ batch_tickers' = <<>>
    /\ historical_data' = {}
    /\ pos' = 1
    /\ chain' = FALSE
    /\ prior' = NoFile
    /\ fetched' = <<>>
    /\ written' = <<>>
    /\ base_successful' = 0
    /\ base_failed' = 0
    /\ summary_writes' = 0
    /\ sleeps' = 0
    /\ artifacts' = {}
    /\ UNCHANGED <<entry_point, new_tickers, resume, files, fields, runs,
                   batch_log, discovery, completed>>

NextReuse ==
    \/ Next
    \/ \E next \in ReuseLists : KeepCollector(next)

SpecReuse == InitReuse /\ [][NextReuse]_vars

\* ------------------------------------------------------ ticker discovery
\* get_all_tickers on a fresh collector, over every outcome of the three
\* listing sources
InitDiscovery ==
    /\ listings \in [SourceNames -> ListingOutcomes]
    /\ entry_point = "run_full_collection"
    /\ all_tickers = <<>>
    /\ batch_size \in BatchSizes
    /\ Constructed

NextDiscovery == GetAllTickers

SpecDiscovery == InitDiscovery /\ [][NextDiscovery]_vars

TypeOK ==
    /\ pc \in {"idle", "listed", "loop", "ticker", "saving", "sleep", "done",
              "interrupted", "failed"}
    /\ batch_size \in Nat \ {0}
    /\ entry_point \in EntryPoints
    /\ runs \in 0..MaxRuns

\* ------------------------------------------------------------ properties
RECURSIVE Flatten(_)
Flatten(ss) == IF ss = <<>> THEN <<>> ELSE Head(ss) \o Flatten(Tail(ss))

Running == pc \in {"loop", "ticker", "saving", "sleep"}
InRun == Running \/ pc = "done"

\* the tickers of a progress record, either collection
RecordSet(rec) ==
    IF rec.valid
    THEN Range(rec.successful_tickers) \cup Range(rec.failed_tickers)
    ELSE {}

\* what this run appended to the two lists
AppendedSuccessful ==
    SubSeq(successful_tickers, base_successful + 1, Len(successful_tickers))
AppendedFailed ==
    SubSeq(failed_tickers, base_failed + 1, Len(failed_tickers))
AppendedSet == Range(AppendedSuccessful) \cup Range(AppendedFailed)
FetchedSet == Range(Flatten(fetched))

\* the k-th batch (from 0) of the list as handed in, before any filter
OriginalBatch(k) ==
    SubSeq(all_tickers, k * batch_size + 1,
           Min((k + 1) * batch_size, Len(all_tickers)))

\* ceil(l / n), by its defining inequalities
CeilDiv(l, n) == CHOOSE k \in 0..l : k * n >= l /\ (k = 0 \/ (k - 1) * n < l)

\* C1: a run with resume enabled never bulk-fetches, and never appends to the
\* successful or the failed list, a ticker of the progress record it loaded.
C1_ResumeSkipsRecorded ==
    (InRun /\ resume) =>
        \A t \in RecordSet(prior) : t \notin FetchedSet /\ t \notin AppendedSet

C1_Witness ==
    /\ InRun /\ resume
    /\ RecordSet(prior) \cap Range(all_tickers) # {}
    /\ fetched # <<>>
    /\ AppendedSet # {}

\* C2: three batches, the first run interrupted after the progress record of
\* batch 1 was written: the resumed run fetches and records every ticker of
\* the original batches 2 and 3 and none of batch 1.
C2_ResumeProcessesRemainingBatches ==
    ( /\ pc = "done" /\ resume /\ chain /\ runs = 2
      /\ NoDup(all_tickers)
      /\ CeilDiv(Len(all_tickers), batch_size) = 3
      /\ prior.valid
      /\ prior.last_batch_index = 1
      /\ RecordSet(prior) = Range(OriginalBatch(0)) )
    => /\ FetchedSet = Range(OriginalBatch(1)) \cup Range(OriginalBatch(2))
       /\ AppendedSet = Range(OriginalBatch(1)) \cup Range(OriginalBatch(2))

\* C3: interrupted runs followed by a resumed run that completes, all over the
\* same duplicate-free list and batch size: every ticker of the list is in
\* the persisted successful or failed collection.
C3_ResumedRunRecordsEveryTicker ==
    (pc = "done" /\ chain /\ NoDup(all_tickers)) =>
        Range(all_tickers) \subseteq RecordSet(progress_file)

\* C4: with no prior progress the bulk fetch is called ceil(L/N) times, on
\* consecutive slices of the list in order: all but the last of N tickers,
\* the last of 1..N, together the list itself.
C4_BatchesPartitionTheList ==
    (pc = "done" /\ ~prior.exists) =>
        /\ Len(fetched) = CeilDiv(Len(all_tickers), batch_size)
        /\ Flatten(fetched) = all_tickers
        /\ \A i \in 1..Len(fetched) :
              IF i < Len(fetched)
              THEN Len(fetched[i]) = batch_size
              ELSE Len(fetched[i]) \in 1..batch_size

C4_Witness ==
    /\ pc = "done" /\ ~prior.exists
    /\ Len(fetched) >= 2
    /\ Len(fetched[Len(fetched)]) < batch_size

InBatch == pc \in {"ticker", "saving"}

\* C5: a ticker of the batch that was absent from the batch's bulk-fetch
\* result is in the failed list and not in the successful list, from the
\* moment it is processed on (stated here up to the end of its batch).
C5_AbsentTickerIsFailedOnly ==
    InBatch =>
        \A i \in 1..(pos - 1) :
            batch_tickers[i] \notin historical_data =>
                /\ batch_tickers[i] \in Range(failed_tickers)
                /\ batch_tickers[i] \notin Range(successful_tickers)

\* C6: ten distinct tickers, batch size 4, no prior progress, data exactly for
\* the even positions: 3 bulk fetches, 5 successful, 5 failed, and a summary
\* with successful = 5, failed = 5, total = 10.
C6_EndToEndScenario ==
    (pc = "done" /\ ~prior.exists) =>
        /\ Len(fetched) = 3
        /\ Len(successful_tickers) = 5
        /\ Cardinality(Range(successful_tickers)) = 5
        /\ Len(failed_tickers) = 5
        /\ Cardinality(Range(failed_tickers)) = 5
        /\ summary_file.exists
        /\ summary_file.successful = 5
        /\ summary_file.failed = 5
        /\ summary_file.total_tickers = 10

C6_Witness ==
    /\ pc = "done" /\ ~prior.exists
    /\ Len(all_tickers) = 10 /\ batch_size = 4
    /\ Range(successful_tickers) = {1, 3, 5, 7, 9}
    /\ summary_file.exists

\* entries of the first k batches fetched in this run
RECURSIVE EntriesOf(_, _)
EntriesOf(ss, k) == IF k = 0 THEN 0 ELSE Len(ss[k]) + EntriesOf(ss, k - 1)

\* C7: within a run the batch index written to the progress file strictly
\* increases, and the record with index k+1 is written only when every
\* ticker of batch k has been appended to the successful or the failed list.
C7_IndexIncreasesAfterCompleteBatch ==
    InRun =>
        /\ \A i \in 1..(Len(written) - 1) : written[i] < written[i + 1]
        /\ Len(written) <= Len(fetched)
        /\ \A i \in 1..Len(written) :
              fetched[i] = batch_slice(tickers, written[i] - 1, batch_size)
        /\ (written # <<>> /\ pc # "saving") =>
              /\ progress_file.valid
              /\ progress_file.last_batch_index = written[Len(written)]
              /\ Len(progress_file.successful_tickers)
                    + Len(progress_file.failed_tickers)
                 = base_successful + base_failed + EntriesOf(fetched, Len(written))
              /\ \A i \in 1..Len(written) :
                    Range(fetched[i]) \subseteq RecordSet(progress_file)

C7_Witness ==
    /\ InRun
    /\ Len(written) >= 2
    /\ Len(fetched[1]) = 2

\* C8: in every persisted progress record no ticker occurs more than once in
\* the successful and failed collections taken together.
C8_ProgressRecordHasNoDuplicates ==
    progress_file.valid =>
        NoDup(progress_file.successful_tickers \o progress_file.failed_tickers)

\* C9: wherever a run can be interrupted, the tickers in the in-memory lists
\* that the persisted record lacks all belong to the batch being processed,
\* and the entries appended since the last save number at most one batch.
Unpersisted ==
    (Range(successful_tickers) \cup Range(failed_tickers))
        \ RecordSet(progress_file)

UnsavedEntries ==
    Len(AppendedSuccessful) + Len(AppendedFailed)
        - EntriesOf(fetched, Len(written))

C9_InterruptLosesAtMostOneBatch ==
    Running =>
        /\ Unpersisted \subseteq (IF InBatch THEN Range(batch_tickers) ELSE {})
        /\ Cardinality(Unpersisted) <= batch_size
        /\ UnsavedEntries <= (IF InBatch THEN Len(batch_tickers) ELSE 0)
        /\ UnsavedEntries <= batch_size

\* C10: while a batch is in progress (from its bulk fetch to the end of
\* save_progress) an interrupt leaves the progress record of the last
\* completed batch boundary: readable, holding no ticker of the batch in
\* progress, its batch index the number of batches completed.  Stated for a
\* run with resume enabled over a duplicate-free list that has a completed
\* boundary behind it.
C10_RecordIsLastBatchBoundary ==
    (InBatch /\ resume /\ NoDup(all_tickers) /\ (prior.valid \/ written # <<>>)) =>
        /\ progress_file.valid
        /\ RecordSet(progress_file) \cap Range(batch_tickers) = {}
        /\ progress_file.last_batch_index = batch_idx

\* C11: every run of collect_all_data that has ended, by normal completion or
\* by an interrupt, has written the summary record exactly once.
C11_SummaryWrittenOncePerEndedRun ==
    pc \in {"done", "interrupted"} => summary_writes = 1

\* C14: a run that processed k >= 1 batches to completion has completed k-1
\* delays; each delay follows the persisted progress record of a batch that
\* is not the last and precedes the next bulk fetch.
C14_DelayBetweenBatchesOnly ==
    /\ (pc = "done" /\ fetched # <<>>) => sleeps = Len(fetched) - 1
    /\ InBatch => sleeps = Len(fetched) - 1
    /\ pc = "sleep" =>
          /\ sleeps = Len(fetched) - 1
          /\ Len(written) = Len(fetched)
          /\ progress_file.valid
          /\ progress_file.last_batch_index = batch_idx + 1
          /\ batch_idx + 1 < total_batches
    /\ (pc = "loop" /\ fetched # <<>>) =>
          sleeps = (IF batch_idx < total_batches THEN Len(fetched)
                                                 ELSE Len(fetched) - 1)

C14_Witness ==
    /\ pc = "done"
    /\ Len(fetched) = 3
    /\ sleeps = 2

\* the elements of s at the positions of P among 1..n, in order
RECURSIVE Pick(_, _, _)
Pick(s, P, n) ==
    IF n = 0 THEN <<>>
    ELSE Pick(s, P, n - 1) \o (IF n \in P THEN <<s[n]>> ELSE <<>>)

EndsWith(s, t) ==
    /\ Len(t) <= Len(s)
    /\ SubSeq(s, Len(s) - Len(t) + 1, Len(s)) = t

\* positions of the batch in progress that the per-ticker loop has passed
Processed == 1..(pos - 1)

\* those of them that raised or had no series in the bulk result
FailedPositions ==
    {i \in Processed : i \in errored \/ batch_tickers[i] \notin historical_data}

\* every entry this run appended is one ticker of a finished batch or one
\* processed ticker of the batch in progress
OneEntryPerProcessedTicker ==
    Len(AppendedSuccessful) + Len(AppendedFailed)
        = EntriesOf(fetched, Len(fetched) - 1) + (pos - 1)

\* C12: when the bulk call of a batch raised, the result is empty, every
\* ticker the per-ticker loop handles is appended to the failed list and none
\* to the successful list, save_progress still writes the record of the
\* batch, and the run goes on (delay, then the next batch) unless the batch
\* was the last one.
C12_BulkFailureStep ==
    (batch_raised /\ InBatch) =>
        /\ historical_data = {}
        /\ errored = {}
        /\ EndsWith(failed_tickers, SubSeq(batch_tickers, 1, pos - 1))
        /\ OneEntryPerProcessedTicker
        /\ (pc = "ticker" /\ pos <= Len(batch_tickers)) =>
              \/ pc' = "interrupted"
              \/ /\ pc' = "ticker"
                 /\ failed_tickers' = Append(failed_tickers, batch_tickers[pos])
                 /\ successful_tickers' = successful_tickers
        /\ (pc = "ticker" /\ pos > Len(batch_tickers)) =>
              pc' \in {"saving", "interrupted"}
        /\ pc = "saving" =>
              \/ pc' = "interrupted"
              \/ /\ progress_file'.valid
                 /\ progress_file'.last_batch_index = batch_idx + 1
                 /\ EndsWith(progress_file'.failed_tickers, batch_tickers)
                 /\ progress_file'.successful_tickers = successful_tickers
                 /\ pc' = (IF batch_idx + 1 < total_batches THEN "sleep" ELSE "loop")

C12_BulkFailureMarksBatchFailed == [][C12_BulkFailureStep]_vars

C12_Witness ==
    /\ batch_raised
    /\ pc = "saving"
    /\ Len(batch_tickers) = 2
    /\ batch_idx + 1 < total_batches

\* C13: an error while one ticker is processed appends that ticker to the
\* failed list once and to no other list, the per-ticker loop goes on, and
\* every ticker processed has exactly one entry; the batches fetched are the
\* consecutive slices of the list whether or not errors occurred.
C13_TickerErrorIsRecordedAndSkipped ==
    InBatch =>
        /\ errored \subseteq Processed
        /\ EndsWith(failed_tickers, Pick(batch_tickers, FailedPositions, pos - 1))
        /\ EndsWith(successful_tickers,
                    Pick(batch_tickers, Processed \ FailedPositions, pos - 1))
        /\ OneEntryPerProcessedTicker
        /\ pc = "saving" => pos = Len(batch_tickers) + 1
        /\ \A i \in 1..Len(fetched) :
              LET idx == batch_idx - Len(fetched) + i
              IN  fetched[i] = SubSeq(tickers, idx * batch_size + 1,
                                      Min((idx + 1) * batch_size, Len(tickers)))

C13_Witness ==
    /\ pc = "ticker"
    /\ 1 \in errored
    /\ pos = 3
    /\ batch_tickers[2] \in Range(successful_tickers)
    /\ batch_tickers[1] \notin Range(successful_tickers)

\* C19: a ticker with a series in the bulk result that was processed without
\* an error is the ticker appended last to the successful list, whatever its
\* fundamentals fetch returned; when that fetch returned nothing, no
\* fundamentals artifact was written and the ticker has no failed entry.
C19_EmptyFundamentalsStillSuccessful ==
    (pc = "ticker" /\ pos > 1) =>
        /\ (batch_tickers[pos - 1] \in historical_data /\ (pos - 1) \notin errored) =>
              /\ successful_tickers # <<>>
              /\ successful_tickers[Len(successful_tickers)] = batch_tickers[pos - 1]
        /\ fundamentals_empty =>
              /\ batch_tickers[pos - 1] \in historical_data
              /\ (pos - 1) \notin FailedPositions
              /\ successful_tickers # <<>>
              /\ successful_tickers[Len(successful_tickers)] = batch_tickers[pos - 1]
              /\ ~fundamentals_saved
              /\ EndsWith(failed_tickers,
                          Pick(batch_tickers, FailedPositions, pos - 1))
              /\ OneEntryPerProcessedTicker

C19_Witness ==
    /\ pc = "ticker"
    /\ pos > 1
    /\ fundamentals_empty
    /\ batch_tickers[pos - 1] \in Range(successful_tickers)

\* C16: over a duplicate-free list no ticker is in more than one bulk fetch of
\* a run, so a ticker appended to the failed list is not fetched again in
\* that run; and a run with resume enabled fetches no ticker of the failed
\* collection of the progress record it loaded.
C16_NoTickerFetchedTwice ==
    InRun =>
        /\ NoDup(all_tickers) =>
              /\ NoDup(Flatten(fetched))
              /\ \A t \in Range(AppendedFailed) :
                    Cardinality({i \in 1..Len(fetched) : t \in Range(fetched[i])}) = 1
        /\ (resume /\ prior.valid) =>
              Range(prior.failed_tickers) \cap FetchedSet = {}

C16_Witness ==
    /\ InRun /\ resume /\ prior.valid /\ NoDup(all_tickers)
    /\ Range(prior.failed_tickers) # {}
    /\ AppendedFailed # <<>>
    /\ fetched # <<>>

\* C18: a run with resume enabled works on the list that remains after the
\* tickers of the loaded record are removed, its loop starts at the batch
\* index of that record, and its first bulk fetch takes the slice of the
\* remaining list that starts at position last_batch_index * batch_size.
RemainingAfter(rec) == SelectSeq(all_tickers, LAMBDA t : t \notin RecordSet(rec))

RecordedIndex(rec) == IF rec.valid THEN rec.last_batch_index ELSE 0

C18_ResumeIndexAppliesToRemainingList ==
    (InRun /\ resume) =>
        /\ tickers = RemainingAfter(prior)
        /\ fetched = <<>> => batch_idx = RecordedIndex(prior)
        /\ fetched # <<>> =>
              fetched[1] = SubSeq(RemainingAfter(prior),
                                  RecordedIndex(prior) * batch_size + 1,
                                  Min((RecordedIndex(prior) + 1) * batch_size,
                                      Len(RemainingAfter(prior))))

C18_Witness ==
    /\ InRun /\ resume
    /\ prior.valid
    /\ prior.last_batch_index >= 1
    /\ fetched # <<>>
    /\ fetched[1] # SubSeq(RemainingAfter(prior), 1, Len(fetched[1]))

\* C15: for every entry point, a process that has exited with a non-zero
\* status ended on an exception other than KeyboardInterrupt, and a process
\* ended by KeyboardInterrupt during the collection has exit status zero.
C15_NonZeroExitOnlyOnException ==
    exit_status # <<>> =>
        /\ exit_status # <<0>> => pc = "failed"
        /\ pc = "interrupted" => exit_status = <<0>>

\* C20: a run with resume enabled over a list that was extended after a
\* completed collection, none of the new tickers recorded yet, has at its
\* normal completion bulk-fetched every new ticker and left each in the
\* successful or the failed collection of the progress record.
C20_ExtendedListIsProcessed ==
    ( /\ pc = "done" /\ resume
      /\ new_tickers # <<>>
      /\ Range(new_tickers) \cap RecordSet(prior) = {} )
    => /\ Range(new_tickers) \subseteq FetchedSet
       /\ Range(new_tickers) \subseteq RecordSet(progress_file)

\* what an exchange listing should contribute: the symbols of its first
\* reachable source, nothing when no source is reachable
Reachable(x) == {i \in 1..Len(Sources[x]) : listings[Sources[x][i]].ok}

FirstReachable(x) == CHOOSE i \in Reachable(x) : \A j \in Reachable(x) : i <= j

\* C17: after get_all_tickers has returned, for each exchange listing: if its
\* primary source failed the secondary source was read; an exchange whose
\* sources all fail contributes nothing and the result still holds the
\* tickers of the other exchange (its symbols but the footer row and those
\* with a special character).
C17_DiscoveryFallsBackPerExchange ==
    pc = "listed" =>
        \A x \in Exchanges :
            /\ ~listings[Sources[x][1]].ok =>
                  /\ Len(Sources[x]) >= 2
                  /\ \E i \in 1..Len(tried) : tried[i] = Sources[x][2]
            /\ Reachable(x) = {} =>
                  \A y \in Exchanges \ {x} :
                      Reachable(y) # {} =>
                          cleaned(without_footer(discovered))
                            = cleaned(without_footer(
                                listings[Sources[y][FirstReachable(y)]].symbols))
\* the counts of a summary record
summary_counts(rec) == <<rec.total_tickers, rec.successful, rec.failed>>

\* C21: when the process before this one completed its collection, a run
\* with resume enabled over the same list ends having made no bulk fetch and
\* written no historical-series file, with the progress file as it found it,
\* and the summary it writes has the counts of the summary it replaces.
C21_RerunStep ==
    (completed /\ resume /\ pc = "loop" /\ pc' = "done") =>
        /\ fetched = <<>>
        /\ artifacts = {}
        /\ written = <<>>
        /\ progress_file' = prior
        /\ summary_file.exists
        /\ summary_counts(summary_file') = summary_counts(summary_file)
C21_RerunOfCompletedCollectionIsIdempotent == [][C21_RerunStep]_vars

\* a resumed run after a completed collection of a non-empty list has ended
C21_Witness ==
    /\ completed /\ resume /\ pc = "done"
    /\ prior.exists
    /\ summary_file.total_tickers = Len(all_tickers)
    /\ Len(all_tickers) >= 2
    /\ summary_file.failed >= 1 /\ summary_file.successful >= 1
\* C22: a run that found no progress file, over a duplicate-free list, ends
\* with every ticker of the list in exactly one of the two lists, once, and
\* with a summary whose total is the length of the list and the sum of its
\* successful and failed counts.
C22_FreshRunAccountsForEveryTicker ==
    (pc = "done" /\ ~prior.exists /\ NoDup(all_tickers)) =>
        /\ \A t \in Range(all_tickers) :
               (t \in Range(successful_tickers)) # (t \in Range(failed_tickers))
        /\ Range(successful_tickers) \cup Range(failed_tickers) = Range(all_tickers)
        /\ NoDup(successful_tickers \o failed_tickers)
        /\ summary_file.total_tickers = Len(all_tickers)
        /\ summary_file.total_tickers = summary_file.successful + summary_file.failed
        /\ summary_file.successful = Cardinality(Range(successful_tickers))
        /\ summary_file.failed = Cardinality(Range(failed_tickers))

\* a fresh run over MaxLen distinct tickers, in more than one batch, has ended
\* with tickers in both lists
C22_Witness ==
    /\ pc = "done" /\ ~prior.exists /\ NoDup(all_tickers)
    /\ Len(all_tickers) = MaxLen
    /\ Len(fetched) >= 2
    /\ successful_tickers # <<>> /\ failed_tickers # <<>>
\* C23: a run with resume disabled that has ended has bulk-fetched the whole
\* input list from batch 0 on, and the progress record and the summary it
\* wrote have one entry for each ticker of the list and no other entry, on a
\* new collector and on one that has run a collection before.
C23_NoResumeRunRecordsOnlyItsOwnTickers ==
    (pc = "done" /\ ~resume) =>
        /\ Flatten(fetched) = all_tickers
        /\ written # <<>> =>
               /\ progress_file.valid
               /\ RecordSet(progress_file) \subseteq Range(all_tickers)
               /\ Len(progress_file.successful_tickers)
                    + Len(progress_file.failed_tickers) = Len(all_tickers)
        /\ Range(summary_file.successful_tickers)
              \cup Range(summary_file.failed_tickers) \subseteq Range(all_tickers)
        /\ summary_file.total_tickers = Len(all_tickers)
\* the progress record has just been persisted by this run
AtBatchBoundary == pc \in {"sleep", "loop", "done"} /\ written # <<>>

\* C24: in a run that found no progress file, over a duplicate-free list,
\* whenever the progress record has just been persisted the tickers whose
\* historical-series file the run has written are exactly the tickers of the
\* record's successful list, and none of them is in its failed list.
C24_ArtifactIffPersistedSuccessful ==
    (AtBatchBoundary /\ ~prior.exists /\ NoDup(all_tickers)) =>
        /\ artifacts = Range(progress_file.successful_tickers)
        /\ artifacts \cap Range(progress_file.failed_tickers) = {}
\* C25: a run that is under way ends: it writes the summary and returns,
\* unless a KeyboardInterrupt ends it first; and at no point has it made more
\* bulk fetches than ceil(L / N), L the length of the list after the resume
\* filter and N the batch size.
C25_RunTerminatesWithinBatchCount ==
    /\ [](InRun => Len(fetched) <= CeilDiv(Len(tickers), batch_size))
    /\ [](pc = "done" => summary_file.exists /\ summary_writes = 1)
    /\ (Running ~> (pc = "done" \/ pc = "interrupted"))

\* a run has ended after as many bulk fetches as the bound allows, more than one
C25_Witness ==
    /\ pc = "done"
    /\ summary_writes = 1
    /\ Len(fetched) = CeilDiv(Len(tickers), batch_size)
    /\ Len(fetched) >= 2
====
